---------------------------- MODULE Spec2Model ----------------------------
(***************************************************************************)
(* State-machine model of the transport-fairmanagement frontend:           *)
(*   - App (theme state, darkMode effect, toggleTheme, PrivateRoute and    *)
(*     the route table)                  src/frontend/src/pages/guardianhome.jsx *)
(*   - GuardianHome (theme button, logout button)        same file         *)
(*   - Login (handleSubmit, loading flag, submit button) src/frontend/src/pages/login.jsx *)
(* The authentication service (../services/auth) is imported by both files *)
(* but its source is not part of src/; its four operations are modelled    *)
(* from the specification's description of the session.                    *)
(*                                                                         *)
(* JavaScript values are records [t |-> type, v |-> text] so that values   *)
(* of different JavaScript types can be compared.                          *)
(***************************************************************************)
EXTENDS Naturals, Sequences, FiniteSets, TLC

(***************************** bounds *************************************)
\* most handleSubmit invocations whose request has not settled yet
MaxInFlight == 2
\* most toggleTheme calls made before React re-renders App
MaxBatchCalls == 2

(************************* JavaScript values ******************************)
JsTrue    == [t |-> "boolean", v |-> "true"]
JsFalse   == [t |-> "boolean", v |-> "false"]
JsNull    == [t |-> "null",    v |-> "null"]
JsZero    == [t |-> "number",  v |-> "0"]
JsOne     == [t |-> "number",  v |-> "1"]
JsDark    == [t |-> "string",  v |-> "dark"]

\* localStorage.getItem returns null when the key is absent
NoItem == "<no item>"

\* contents the 'darkMode' key may hold when App is first loaded
StoredValues == {NoItem, "", "true", "false", "null", "0", "1", "\"dark\""}

\* truthiness of a JavaScript value (the test in `x ? a : b`, `!x`, `if (x)`)
Truthy(x) ==
    CASE x.t = "boolean" -> x.v = "true"
      [] x.t = "number"  -> x.v # "0"
      [] x.t = "string"  -> x.v # ""
      [] OTHER           -> FALSE

\* the JavaScript operator !x
JsNot(x) == IF Truthy(x) THEN JsFalse ELSE JsTrue

\* truthiness of what localStorage.getItem returned (null or a string)
SavedTruthy(saved) == saved # NoItem /\ saved # ""

\* JSON.parse on the texts of StoredValues
JSONparse(text) ==
    CASE text = "true"     -> JsTrue
      [] text = "false"    -> JsFalse
      [] text = "null"     -> JsNull
      [] text = "0"        -> JsZero
      [] text = "1"        -> JsOne
      [] text = "\"dark\"" -> JsDark

\* JSON.stringify on the values above
JSONstringify(x) ==
    CASE x.t = "string" -> "\"" \o x.v \o "\""
      [] OTHER          -> x.v

(************************* authentication service *************************)
NoSession == [authenticated |-> FALSE, role |-> "none"]
Roles == {"guardian", "user"}

isAuthenticated(sess) == sess.authenticated
isGuardian(sess) == sess.role = "guardian"
\* the session after authService.login resolved for an account of `role`
loginSession(role) == [authenticated |-> TRUE, role |-> role]
\* the session after authService.logout
logoutSession(sess) == NoSession

(******************************* routing **********************************)
RoutePaths == {"/login", "/register", "/guardian", "/user", "/"}
GuardedPaths == {"/guardian", "/user"}
GuardedPages == {"GuardianHome", "UserHome"}

\* <Navigate to=.../>: the location becomes `to`, whose element is rendered
Navigate(to, page) == [route |-> to, page |-> page, redirect |-> TRUE]
Render(path, page) == [route |-> path, page |-> page, redirect |-> FALSE]

\* PrivateRoute without its test: the children are rendered for everybody
PrivateRoute_NoGuard(sess, path, children) == Render(path, children)

\* PrivateRoute: children when authenticated, else <Navigate to="/login"/>
PrivateRoute(sess, path, children) ==
    IF isAuthenticated(sess) THEN Render(path, children)
    ELSE Navigate("/login", "Login")

\* the route table with a root route that sends a signed-in session to its
\* dashboard instead of /login
Routes_RootByRole(path, sess) ==
    CASE path = "/login"    -> Render("/login", "Login")
      [] path = "/register" -> Render("/register", "Register")
      [] path = "/guardian" -> PrivateRoute(sess, "/guardian", "GuardianHome")
      [] path = "/user"     -> PrivateRoute(sess, "/user", "UserHome")
      [] path = "/"         -> IF ~isAuthenticated(sess) THEN Navigate("/login", "Login")
                               ELSE IF isGuardian(sess) THEN Navigate("/guardian", "GuardianHome")
                               ELSE Navigate("/user", "UserHome")

\* the <Routes> table of App
Routes(path, sess) ==
    CASE path = "/login"    -> Render("/login", "Login")
      [] path = "/register" -> Render("/register", "Register")
      [] path = "/guardian" -> PrivateRoute(sess, "/guardian", "GuardianHome")
      [] path = "/user"     -> PrivateRoute(sess, "/user", "UserHome")
      [] path = "/"         -> Navigate("/login", "Login")

(******************************** theme ***********************************)
\* the initialiser written as JSON.parse(saved) || true: a stored false is lost
InitialDarkMode_OrTrue(saved) ==
    IF SavedTruthy(saved) /\ Truthy(JSONparse(saved)) THEN JSONparse(saved) ELSE JsTrue

\* useState initialiser of darkMode
InitialDarkMode(saved) ==
    IF SavedTruthy(saved) THEN JSONparse(saved) ELSE JsTrue

\* the value toggleTheme hands to setDarkMode; `captured` is the darkMode of
\* the render that created the closure
toggleTheme(captured) == JsNot(captured)

\* useEffect(..., [darkMode]): what it writes to localStorage
EffectStorage(dm) == JSONstringify(dm)
\* ... and whether <html> carries the class 'dark' afterwards
EffectDarkClass(dm) == Truthy(dm)


(************************** Login.handleSubmit ****************************)
\* error.response?.data?.detail: undefined when the error carries none
NoDetail == "<undefined>"
\* details a rejected authService.login may carry
ErrorDetails == {NoDetail, "", "Invalid credentials"}
\* shapes of response.user in a resolved authService.login:
\* no user object, a user without first_name, a user with first_name
Users == {"missing", "noname", "named"}

\* what the handler did after the request settled: the toast it showed and
\* the route it passed to navigate ("none": navigate was not called)
Outcome(kind, msg, nav) == [kind |-> kind, msg |-> msg, nav |-> nav]

\* a catch block that always shows the fixed text
CatchBlock_FixedText(detail) == Outcome("error", "Login failed", "none")

\* a catch block that swallows the error
CatchBlock_Swallow(detail) == Outcome("none", "", "none")

\* catch (error): toast.error(error.response?.data?.detail || 'Login failed')
CatchBlock(detail) ==
    Outcome("error",
            IF detail # NoDetail /\ detail # "" THEN detail ELSE "Login failed",
            "none")

\* the try block after the await: toast.success with response.user.first_name,
\* then navigate by role; reading first_name of a missing user throws a
\* TypeError (no .response), which the catch block receives
TryBlock(user, sess) ==
    IF user = "missing" THEN CatchBlock(NoDetail)
    ELSE Outcome("success",
                 IF user = "named" THEN "auth.welcomeBack, Asha!"
                 ELSE "auth.welcomeBack, undefined!",
                 IF isGuardian(sess) THEN "/guardian" ELSE "/user")

\* a handler without the finally block: loading is never reset
FinallyLoading_Missing(wasLoading) == wasLoading

\* finally: setLoading(false)
FinallyLoading(wasLoading) == FALSE

\* <button type="submit" disabled={loading}>
SubmitDisabled(isLoading) == isLoading

(******************************* state ************************************)
VARIABLES
    initial,     \* content of the 'darkMode' key when App was first loaded
    storage,     \* content of the 'darkMode' key now
    darkMode,    \* App's darkMode state as of the last render
    queued,      \* the value setDarkMode queued for the next render
    batchCalls,  \* toggleTheme calls since the last render of App
    darkClass,   \* whether <html> carries the class 'dark'
    session,     \* the authentication service's session
    route,       \* the router's location
    page,        \* the page component rendered
    loading,     \* the loading flag of the mounted Login
    liveCalls,   \* unsettled handleSubmit calls of the mounted Login
    staleCalls,  \* unsettled handleSubmit calls of Login instances unmounted since
    fx           \* the last step: its operation, inputs and outputs

vars == <<initial, storage, darkMode, queued, batchCalls, darkClass, session,
          route, page, loading, liveCalls, staleCalls, fx>>

\* record of a step: op and its inputs a, b; the target of a navigate() call,
\* whether a <Navigate/> redirected, the toast shown, login requests issued
Step(op, a, b, nav, redirect, kind, msg, req) ==
    [op |-> op, a |-> a, b |-> b, nav |-> nav, redirect |-> redirect,
     kind |-> kind, msg |-> msg, req |-> req]

\* a step that calls neither navigate nor toast and issues no request
Quiet(op, a, redirect) == Step(op, a, "", "none", redirect, "none", "", 0)

inFlight == liveCalls + staleCalls

\* document load at `path`: App is constructed from browser storage, its
\* effect runs after the first render, no handler of the old document survives
LoadPage(op, path) ==
    LET dm == InitialDarkMode(storage)
        r  == Routes(path, session)
    IN  /\ batchCalls = 0
        /\ darkMode' = dm
        /\ queued' = dm
        /\ batchCalls' = 0
        /\ storage' = EffectStorage(dm)
        /\ darkClass' = EffectDarkClass(dm)
        /\ route' = r.route
        /\ page' = r.page
        /\ loading' = FALSE
        /\ liveCalls' = 0
        /\ staleCalls' = 0
        /\ fx' = Quiet(op, path, r.redirect)
        /\ UNCHANGED <<initial, session>>

Init ==
    \E s \in StoredValues, path \in RoutePaths :
        LET dm == InitialDarkMode(s)
            r  == Routes(path, NoSession)
        IN  /\ initial = s
            /\ darkMode = dm
            /\ queued = dm
            /\ batchCalls = 0
            /\ storage = EffectStorage(dm)
            /\ darkClass = EffectDarkClass(dm)
            /\ session = NoSession
            /\ route = r.route
            /\ page = r.page
            /\ loading = FALSE
            /\ liveCalls = 0
            /\ staleCalls = 0
            /\ fx = Quiet("Visit", path, r.redirect)

\* the user opens `path` in the address bar
Visit(path) == LoadPage("Visit", path)

\* the user reloads the document
Reload == LoadPage("Reload", route)

\* in-app navigation (a <Link>, history back/forward): the document and its
\* pending handlers survive; Login's state is lost when Login is unmounted
ClientNav(path) ==
    LET r == Routes(path, session)
        unmount == page = "Login" /\ r.page # "Login"
    IN  /\ batchCalls = 0
        /\ route' = r.route
        /\ page' = r.page
        /\ loading' = IF page = "Login" /\ r.page = "Login" THEN loading ELSE FALSE
        /\ liveCalls' = IF unmount THEN 0 ELSE liveCalls
        /\ staleCalls' = IF unmount THEN staleCalls + liveCalls ELSE staleCalls
        /\ fx' = Quiet("ClientNav", path, r.redirect)
        /\ UNCHANGED <<initial, storage, darkMode, queued, batchCalls, darkClass, session>>

\* the theme button of Login or GuardianHome: onClick={toggleTheme}
ToggleTheme ==
    /\ page \in {"Login", "GuardianHome"}
    /\ batchCalls < MaxBatchCalls
    /\ queued' = toggleTheme(darkMode)
    /\ batchCalls' = batchCalls + 1
    /\ fx' = Quiet("toggleTheme", "", FALSE)
    /\ UNCHANGED <<initial, storage, darkMode, darkClass, session, route, page,
                   loading, liveCalls, staleCalls>>

\* React re-renders App with the queued state: the effect runs when darkMode
\* changed, and PrivateRoute is evaluated again for the current location
RenderApp ==
    LET r == Routes(route, session)
    IN  /\ batchCalls > 0
        /\ darkMode' = queued
        /\ batchCalls' = 0
        /\ storage' = IF queued # darkMode THEN EffectStorage(queued) ELSE storage
        /\ darkClass' = IF queued # darkMode THEN EffectDarkClass(queued) ELSE darkClass
        /\ route' = r.route
        /\ page' = r.page
        /\ loading' = IF page = "Login" /\ r.page = "Login" THEN loading ELSE FALSE
        /\ fx' = Quiet("RenderApp", "", r.redirect)
        /\ UNCHANGED <<initial, queued, session, liveCalls, staleCalls>>

\* the submit button of Login: handleSubmit up to its await
Submit ==
    /\ page = "Login"
    /\ ~SubmitDisabled(loading)
    /\ batchCalls = 0
    /\ inFlight < MaxInFlight
    /\ loading' = TRUE
    /\ liveCalls' = liveCalls + 1
    /\ fx' = Step("Submit", "", "", "none", FALSE, "none", "", 1)
    /\ UNCHANGED <<initial, storage, darkMode, queued, batchCalls, darkClass,
                   session, route, page, staleCalls>>

\* the rest of handleSubmit once its request settled with outcome `out`;
\* `live`: the Login that issued it is still mounted
Settle(op, a, b, live, sess, out) ==
    LET r == IF out.nav = "none" THEN Render(route, page) ELSE Routes(out.nav, sess)
        unmount == page = "Login" /\ r.page # "Login"
        lc == IF live THEN liveCalls - 1 ELSE liveCalls
        sc == IF live THEN staleCalls ELSE staleCalls - 1
        ld == IF live THEN FinallyLoading(loading) ELSE loading
    IN  /\ batchCalls = 0
        /\ IF live THEN liveCalls > 0 ELSE staleCalls > 0
        /\ session' = sess
        /\ route' = r.route
        /\ page' = r.page
        /\ loading' = IF page = "Login" /\ r.page = "Login" THEN ld ELSE FALSE
        /\ liveCalls' = IF unmount THEN 0 ELSE lc
        /\ staleCalls' = IF unmount THEN sc + lc ELSE sc
        /\ fx' = Step(op, a, b, out.nav, r.redirect, out.kind, out.msg, 0)
        /\ UNCHANGED <<initial, storage, darkMode, queued, batchCalls, darkClass>>

\* authService.login resolves: the session is established, the try block runs
LoginResolves(live, user, role) ==
    LET sess == loginSession(role)
    IN  Settle("LoginResolves", user, role, live, sess, TryBlock(user, sess))

\* authService.login rejects: the catch block runs
LoginRejects(live, detail) ==
    Settle("LoginRejects", detail, "", live, session, CatchBlock(detail))

\* the logout button of GuardianHome: onClick={authService.logout}
Logout ==
    /\ page = "GuardianHome"
    /\ batchCalls = 0
    /\ session' = logoutSession(session)
    /\ fx' = Quiet("Logout", "", FALSE)
    /\ UNCHANGED <<initial, storage, darkMode, queued, batchCalls, darkClass,
                   route, page, loading, liveCalls, staleCalls>>

Next ==
    \/ \E path \in RoutePaths : Visit(path)
    \/ Reload
    \/ \E path \in RoutePaths : ClientNav(path)
    \/ ToggleTheme
    \/ RenderApp
    \/ Submit
    \/ \E live \in BOOLEAN, user \in Users, role \in Roles : LoginResolves(live, user, role)
    \/ \E live \in BOOLEAN, detail \in ErrorDetails : LoginRejects(live, detail)
    \/ Logout

Spec == Init /\ [][Next]_vars

TypeOK ==
    /\ initial \in StoredValues
    /\ batchCalls \in 0..MaxBatchCalls
    /\ route \in RoutePaths \ {"/"}
    /\ page \in {"Login", "Register", "GuardianHome", "UserHome"}
    /\ loading \in BOOLEAN
    /\ liveCalls \in 0..MaxInFlight
    /\ staleCalls \in 0..MaxInFlight
    /\ session.authenticated \in BOOLEAN

(******************************* claims ***********************************)
Settles == {"LoginResolves", "LoginRejects"}
Visits == {"Visit", "Reload", "ClientNav"}

\* C1: in every reachable state a guarded page (GuardianHome, UserHome) is
\* rendered only while authService.isAuthenticated() is true; in particular
\* not after the logout button of GuardianHome ran authService.logout.
C1_GuardedPageOnlyWhileAuthenticated ==
    page \in GuardedPages => isAuthenticated(session)

\* C2: every visit of /guardian or /user made while isAuthenticated() is
\* false ends on /login with the Login page rendered, by a redirect, and
\* shows no notification.
C2_UnauthenticatedVisitRedirectsToLogin ==
    [][(fx'.op \in Visits /\ fx'.a \in GuardedPaths /\ ~isAuthenticated(session'))
        => (route' = "/login" /\ page' = "Login" /\ page' \notin GuardedPages
            /\ fx'.redirect /\ fx'.kind = "none")]_vars

C2_Witness ==
    /\ fx.op = "ClientNav" /\ fx.a = "/guardian" /\ ~isAuthenticated(session)
    /\ fx.redirect /\ route = "/login" /\ page = "Login"

\* C3: whenever authService.login resolves, the handler calls navigate with
\* /guardian if isGuardian() is true and with /user otherwise, whatever the
\* user object of the response is.
C3_ResolvedLoginNavigatesByRole ==
    [][fx'.op = "LoginResolves"
        => fx'.nav = (IF isGuardian(session') THEN "/guardian" ELSE "/user")]_vars

\* C4: whenever authService.login rejects, an error notification is shown
\* (the backend's detail when it carries a message, else 'Login failed'),
\* navigate is not called and the route and page stay as they were.
C4_RejectedLoginShowsErrorAndStays ==
    [][fx'.op = "LoginRejects"
        => (/\ fx'.kind = "error"
            /\ fx'.msg = (IF fx'.a \in {NoDetail, ""} THEN "Login failed" ELSE fx'.a)
            /\ fx'.nav = "none"
            /\ route' = route /\ page' = page)]_vars

C4_Witness ==
    /\ fx.op = "LoginRejects" /\ fx.a = "Invalid credentials"
    /\ fx.kind = "error" /\ fx.msg = "Invalid credentials"
    /\ fx.nav = "none" /\ route = "/login" /\ page = "Login"

\* C5: a reload restores the darkMode the App had before it, and once App
\* has rendered a toggled value the 'darkMode' key holds its JSON text.
C5_ThemePersistsAndIsRestored ==
    [][/\ fx'.op = "Reload" => darkMode' = darkMode
       /\ fx'.op \in {"Reload", "RenderApp"}
            => (/\ darkMode' = JsTrue => storage' = "true"
                /\ darkMode' = JsFalse => storage' = "false")]_vars

C5_Witness ==
    /\ initial = NoItem /\ fx.op = "Reload"
    /\ darkMode = JsFalse /\ storage = "false" /\ ~darkClass

\* C6: darkMode is true or false in every reachable state, whatever the
\* 'darkMode' key held when App was loaded.
C6_DarkModeIsBoolean ==
    darkMode \in {JsTrue, JsFalse}

\* C7: every visit of / ends on /login with the Login page rendered, by a
\* redirect, whether or not the session is authenticated.
C7_RootRedirectsToLogin ==
    [][(fx'.op \in Visits /\ fx'.a = "/")
        => (route' = "/login" /\ page' = "Login" /\ fx'.redirect)]_vars

C7_Witness ==
    /\ fx.op = "Visit" /\ fx.a = "/" /\ isAuthenticated(session)
    /\ isGuardian(session) /\ route = "/login" /\ page = "Login"

\* C8: a submit issues one login request and neither navigates nor notifies;
\* no other step issues a request; a step that settles a request ends one
\* call and either calls navigate or shows an error notification, not both
\* and not neither; no step that settles nothing navigates or notifies.
C8_RequestThenExactlyOneOutcome ==
    [][/\ fx'.op = "Submit"
            => (/\ fx'.req = 1 /\ inFlight' = inFlight + 1
                /\ fx'.nav = "none" /\ fx'.kind = "none"
                /\ route' = route /\ page' = page)
       /\ fx'.op # "Submit" => (fx'.req = 0 /\ inFlight' <= inFlight)
       /\ fx'.op \in Settles
            => (/\ inFlight' = inFlight - 1
                /\ (fx'.nav \in GuardedPaths) # (fx'.kind = "error"))
       /\ fx'.op \notin Settles => (fx'.nav = "none" /\ fx'.kind = "none")]_vars

C8_Witness ==
    /\ fx.op = "LoginResolves" /\ fx.nav = "/guardian" /\ fx.kind = "success"
    /\ route = "/guardian" /\ page = "GuardianHome"

\* C9 as stated: at most one login request is in flight at any time.
C9_AtMostOneInFlight ==
    inFlight <= 1

\* C9 as amended: the mounted Login has at most one request in flight; its
\* loading flag is true exactly while that request is unsettled; a submit
\* happens only with loading false and sets it; after a rejected login with
\* nothing of the mounted Login left in flight the button is enabled again.
C9_AtMostOneInFlightPerLogin ==
    /\ liveCalls <= 1 /\ (loading <=> liveCalls = 1)
    /\ [][/\ liveCalls' <= 1
          /\ loading' <=> liveCalls' = 1
          /\ page' # "Login" => liveCalls' = 0
          /\ fx'.op = "Submit" => (~loading /\ loading')
          /\ (fx'.op = "LoginRejects" /\ page' = "Login" /\ liveCalls' = 0)
                => ~SubmitDisabled(loading')]_vars

C9_Witness ==
    /\ fx.op = "Submit" /\ page = "Login" /\ loading
    /\ liveCalls = 1 /\ staleCalls = 1

\* C10: n toggleTheme calls leave darkMode equal to the original value
\* negated when n is odd and to the original value when n is even, also when
\* the calls are made before App re-renders.
C10_ToggleThemeIsInvolution ==
    [][fx'.op = "RenderApp"
        => darkMode' = (IF batchCalls % 2 = 1 THEN JsNot(darkMode) ELSE darkMode)]_vars

=============================================================================
